---- MODULE Spec2Model ----
(***************************************************************************)
(* The image-to-prompt application: the React state of App (src/App.tsx),  *)
(* its event handlers, the suspended invocations of the asynchronous       *)
(* handleGeneratePrompt, and the Gemini wrapper generatePromptFromImage.   *)
(* The isDragging flag only styles the upload zone and is left out.        *)
(*                                                                         *)
(* Strings the code inspects character by character (media types, the      *)
(* service's response text) are sequences of one-character strings; the    *)
(* messages the code only builds and stores are TLA+ strings.              *)
(***************************************************************************)
EXTENDS Integers, Sequences, FiniteSets, Bags, TLC

VARIABLES
    imageFile,        \* useState<File | null>
    generatedPrompt,  \* useState<string>
    error,            \* useState<string>
    status,           \* useState<AppStatus>
    copySuccess,      \* useState<boolean>
    tasks,            \* suspended handleGeneratePrompt invocations (a bag)
    clipboard,        \* what navigator.clipboard last received
    timers,           \* pending setTimeout callbacks of handleCopyPrompt
    urlLeaked,        \* an object URL of a file no longer stored was never revoked
    lastEvent         \* history: the handler or continuation that ran last

vars == <<imageFile, generatedPrompt, error, status, copySuccess,
          tasks, clipboard, timers, urlLeaked, lastEvent>>

appState == <<imageFile, generatedPrompt, error, status>>

----------------------------------------------------------------------------
(* Bounds of the model. *)

\* Image files the user can hand to the application.
MaxFiles == 2
\* handleGeneratePrompt invocations suspended at an await at the same time.
MaxTasks == 2
\* Length of the text the service answers with.
MaxTextLen == 2
\* Pending copy-feedback timers.
MaxTimers == 2

----------------------------------------------------------------------------
(* Values. *)

AppStatus == {"idle", "uploading", "previewing", "generating", "success", "error"}

\* null of useState<File | null>
NoFile == [id |-> 0, type |-> <<>>]

ImagePrefix == <<"i", "m", "a", "g", "e", "/">>

ImagePng == <<"i", "m", "a", "g", "e", "/", "p", "n", "g">>
ImageBare == <<"i", "m", "a", "g", "e", "/">>
TextPlain == <<"t", "e", "x", "t", "/", "p", "l", "a", "i", "n">>
ImageNoSlash == <<"i", "m", "a", "g", "e">>

\* The File objects offered. The image files declare "image/png" or the bare
\* "image/"; three more files declare another family, a proper prefix of
\* "image/", and the empty type the browser reports for an unknown file.
ImageFiles ==
    {[id |-> i, type |-> IF i % 2 = 1 THEN ImagePng ELSE ImageBare] : i \in 1..MaxFiles}

OtherFiles ==
    {[id |-> MaxFiles + 1, type |-> TextPlain],
     [id |-> MaxFiles + 2, type |-> ImageNoSlash],
     [id |-> MaxFiles + 3, type |-> <<>>]}

Files == ImageFiles \cup OtherFiles

Chars == {" ", "a"}

RECURSIVE SeqsUpTo(_)
SeqsUpTo(n) ==
    IF n = 0 THEN {<<>>}
    ELSE LET shorter == SeqsUpTo(n - 1)
         IN  shorter \cup {Append(s, c) : s \in {t \in shorter : Len(t) = n - 1}, c \in Chars}

Texts == SeqsUpTo(MaxTextLen)

InvalidImageMsg == "Please select a valid image file."
NoImageMsg == "Please select an image first."
EmptyResponseMsg == "The API response was empty or invalid."
UnknownGeminiMsg == "An unknown error occurred while communicating with the Gemini API."
UnknownErrorMsg == "An unknown error occurred."

\* Messages of the errors the service call or the file read can fail with.
ServiceMessages == {"quota exceeded"}
ReadMessages == {"read failed"}

----------------------------------------------------------------------------
(* String helpers: String.prototype.startsWith and String.prototype.trim. *)

\* Mutant: the last character of the prefix is not compared.
startsWithShort(s, prefix) ==
    /\ Len(s) >= Len(prefix) - 1
    /\ SubSeq(s, 1, Len(prefix) - 1) = SubSeq(prefix, 1, Len(prefix) - 1)

\* Mutant: equality in place of the prefix test.
startsWithEqual(s, prefix) == s = prefix

startsWith(s, prefix) ==
    /\ Len(s) >= Len(prefix)
    /\ SubSeq(s, 1, Len(prefix)) = prefix

IsSpace(c) == c = " "

RECURSIVE trimStart(_)
trimStart(s) ==
    IF s # <<>> /\ IsSpace(Head(s)) THEN trimStart(Tail(s)) ELSE s

RECURSIVE trimEnd(_)
trimEnd(s) ==
    IF s # <<>> /\ IsSpace(s[Len(s)]) THEN trimEnd(SubSeq(s, 1, Len(s) - 1)) ELSE s

trim(s) == trimEnd(trimStart(s))

----------------------------------------------------------------------------
(* The Gemini wrapper. *)

\* What ai.models.generateContent can do: answer with or without text, throw
\* an Error, or throw something that is not an Error.
ServiceOutcomes ==
    [kind : {"response"}, hasText : {TRUE}, text : Texts, message : {""}]
      \cup [kind : {"response"}, hasText : {FALSE}, text : {<<>>}, message : {""}]
      \cup [kind : {"throwError"}, hasText : {FALSE}, text : {<<>>}, message : ServiceMessages]
      \cup [kind : {"throwOther"}, hasText : {FALSE}, text : {<<>>}, message : {""}]

Resolved(v) == [ok |-> TRUE, value |-> v, isError |-> FALSE, message |-> ""]
Rejected(isErr, m) == [ok |-> FALSE, value |-> <<>>, isError |-> isErr, message |-> m]

\* The catch block of generatePromptFromImage: an Error is wrapped, anything
\* else becomes the generic Error.
geminiCatch(thrown) ==
    IF thrown.isError
    THEN Rejected(TRUE, "Gemini API Error: " \o thrown.message)
    ELSE Rejected(TRUE, UnknownGeminiMsg)

\* The settlement of generatePromptFromImage for one outcome of the service.
\* The empty-response Error is thrown inside the try block, so the catch
\* block wraps it too.
generatePromptFromImage(o) ==
    IF o.kind = "response"
    THEN IF o.hasText /\ o.text # <<>>
         THEN Resolved(trim(o.text))
         ELSE geminiCatch(Rejected(TRUE, EmptyResponseMsg))
    ELSE geminiCatch(Rejected(o.kind = "throwError", o.message))

\* What fileToBase64 can settle with: the encoded bytes, an Error, or a
\* rejection that is not an Error.
fileToBase64Outcomes ==
    {Resolved(<<>>)}
      \cup {Rejected(TRUE, m) : m \in ReadMessages}
      \cup {Rejected(FALSE, "")}

----------------------------------------------------------------------------
(* Initial state: the useState defaults. *)

Init ==
    /\ imageFile = NoFile
    /\ generatedPrompt = <<>>
    /\ error = ""
    /\ status = "idle"
    /\ copySuccess = FALSE
    /\ tasks = EmptyBag
    /\ clipboard = <<>>
    /\ timers = 0
    /\ urlLeaked = FALSE
    /\ lastEvent = [op |-> "init"]

----------------------------------------------------------------------------
(* Rendering: the imageUrl memo. *)

\* useMemo creates an object URL whenever imageFile changes to a file, and
\* nothing revokes the URL of the file that was stored before. next is the
\* new value of imageFile; the result is the new value of urlLeaked.
imageUrlMemo(next) == urlLeaked \/ (imageFile # NoFile /\ next # imageFile)

----------------------------------------------------------------------------
(* The handlers. *)

processFile(file) ==
    /\ IF ~startsWith(file.type, ImagePrefix)
       THEN /\ error' = InvalidImageMsg
            /\ status' = "error"
            /\ imageFile' = NoFile
            /\ UNCHANGED generatedPrompt
       ELSE /\ imageFile' = file
            /\ generatedPrompt' = <<>>
            /\ error' = ""
            /\ status' = "previewing"
    /\ urlLeaked' = imageUrlMemo(imageFile')
    /\ lastEvent' = [op |-> "processFile", file |-> file]
    /\ UNCHANGED <<copySuccess, tasks, clipboard, timers>>

\* onChange of the file input, a file having been chosen.
handleImageChange(file) == processFile(file)

\* onDrop of the upload zone, the drop holding a file.
handleDrop(file) == processFile(file)

\* Mutant: the early return for a missing image is gone.
handleGeneratePromptNoGuard ==
    /\ BagCardinality(tasks) < MaxTasks
    /\ status' = "generating"
    /\ error' = ""
    /\ generatedPrompt' = <<>>
    /\ tasks' = tasks (+) SetToBag({[file |-> imageFile, pc |-> "fileToBase64", calls |-> 0]})
    /\ lastEvent' = [op |-> "handleGeneratePrompt", hadImage |-> imageFile # NoFile]
    /\ UNCHANGED <<imageFile, copySuccess, clipboard, timers, urlLeaked>>

\* The task a generate request suspends as, at its first await.
NewTask == [file |-> imageFile, pc |-> "fileToBase64", calls |-> 0]

\* handleGeneratePrompt up to its first await.
handleGeneratePrompt ==
    /\ IF imageFile = NoFile
       THEN /\ error' = NoImageMsg
            /\ status' = "error"
            /\ UNCHANGED <<generatedPrompt, tasks>>
       ELSE /\ BagCardinality(tasks) < MaxTasks
            /\ status' = "generating"
            /\ error' = ""
            /\ generatedPrompt' = <<>>
            /\ tasks' = tasks (+) SetToBag({NewTask})
    /\ lastEvent' = [op |-> "handleGeneratePrompt", hadImage |-> imageFile # NoFile]
    /\ UNCHANGED <<imageFile, copySuccess, clipboard, timers, urlLeaked>>

\* The catch block of handleGeneratePrompt.
generateCatch(thrown) ==
    /\ error' = "Failed to generate prompt: "
                  \o (IF thrown.isError THEN thrown.message ELSE UnknownErrorMsg)
    /\ status' = "error"
    /\ UNCHANGED generatedPrompt

\* Mutant: the service is called a second time.
CallingTwice(t) == [t EXCEPT !.pc = "generateContent", !.calls = t.calls + 2]

\* The invocation t once the service call has been issued.
Calling(t) == [t EXCEPT !.pc = "generateContent", !.calls = t.calls + 1]

\* fileToBase64 settles for the suspended invocation t: on success the
\* invocation calls generatePromptFromImage and suspends again, on failure
\* it ends in the catch block without having called the service.
fileToBase64Settles(t, r) ==
    /\ BagIn(t, tasks)
    /\ t.pc = "fileToBase64"
    /\ IF r.ok
       THEN /\ tasks' = (tasks (-) SetToBag({t})) (+) SetToBag({Calling(t)})
            /\ UNCHANGED <<generatedPrompt, error, status>>
       ELSE /\ tasks' = tasks (-) SetToBag({t})
            /\ generateCatch(r)
    /\ lastEvent' = [op |-> "fileToBase64", task |-> t, ok |-> r.ok,
                     calls |-> IF r.ok THEN Calling(t).calls ELSE t.calls]
    /\ UNCHANGED <<imageFile, copySuccess, clipboard, timers, urlLeaked>>

\* The service call of the suspended invocation t settles with outcome o.
generateContentSettles(t, o) ==
    /\ BagIn(t, tasks)
    /\ t.pc = "generateContent"
    /\ tasks' = tasks (-) SetToBag({t})
    /\ LET r == generatePromptFromImage(o)
       IN  IF r.ok
           THEN /\ generatedPrompt' = r.value
                /\ status' = "success"
                /\ UNCHANGED error
           ELSE generateCatch(r)
    /\ lastEvent' = [op |-> "generateContent", task |-> t, outcome |-> o]
    /\ UNCHANGED <<imageFile, copySuccess, clipboard, timers, urlLeaked>>

handleCopyPrompt ==
    /\ IF generatedPrompt # <<>>
       THEN /\ timers < MaxTimers
            /\ clipboard' = generatedPrompt
            /\ copySuccess' = TRUE
            /\ timers' = timers + 1
       ELSE UNCHANGED <<clipboard, copySuccess, timers>>
    /\ lastEvent' = [op |-> "handleCopyPrompt", copied |-> generatedPrompt # <<>>]
    /\ UNCHANGED <<imageFile, generatedPrompt, error, status, tasks, urlLeaked>>

\* Mutant: the callback does not clear the feedback.
copyTimeoutKeeps ==
    /\ timers > 0
    /\ timers' = timers - 1
    /\ lastEvent' = [op |-> "copyTimeout"]
    /\ UNCHANGED <<imageFile, generatedPrompt, error, status, copySuccess, tasks,
                   clipboard, urlLeaked>>

\* The callback handleCopyPrompt scheduled with setTimeout fires.
copyTimeout ==
    /\ timers > 0
    /\ timers' = timers - 1
    /\ copySuccess' = FALSE
    /\ lastEvent' = [op |-> "copyTimeout"]
    /\ UNCHANGED <<imageFile, generatedPrompt, error, status, tasks, clipboard, urlLeaked>>

\* Mutant: the object URL of the stored file is not revoked.
handleResetNoRevoke ==
    /\ imageFile' = NoFile
    /\ generatedPrompt' = <<>>
    /\ error' = ""
    /\ status' = "idle"
    /\ urlLeaked' = (urlLeaked \/ imageFile # NoFile)
    /\ lastEvent' = [op |-> "handleReset"]
    /\ UNCHANGED <<copySuccess, tasks, clipboard, timers>>

\* Mutant: the error message is not cleared.
handleResetKeepsError ==
    /\ imageFile' = NoFile
    /\ generatedPrompt' = <<>>
    /\ status' = "idle"
    /\ lastEvent' = [op |-> "handleReset"]
    /\ UNCHANGED <<error, copySuccess, tasks, clipboard, timers, urlLeaked>>

\* handleReset revokes the URL of the stored file, so nothing leaks here.
handleReset ==
    /\ imageFile' = NoFile
    /\ generatedPrompt' = <<>>
    /\ error' = ""
    /\ status' = "idle"
    /\ lastEvent' = [op |-> "handleReset"]
    /\ UNCHANGED <<copySuccess, tasks, clipboard, timers, urlLeaked>>

----------------------------------------------------------------------------
(* What the rendered page offers. *)

\* Mutant: the upload zone is rendered in status idle only.
UploadZoneShownIdle == imageFile = NoFile /\ status = "idle"

UploadZoneShown == imageFile = NoFile
FileInputEnabled == UploadZoneShown /\ status # "generating"
RemoveImageShown == imageFile # NoFile
\* Mutant: the Generate button stays rendered, enabled, while generating.
GenerateShownGenerating == status \in {"previewing", "generating"}

GenerateShown == status = "previewing"
ResultShown == generatedPrompt # <<>> /\ status = "success"

\* The asynchronous continuations: they run whatever the page shows.
Settle ==
    \E t \in BagToSet(tasks) :
        \/ \E r \in fileToBase64Outcomes : fileToBase64Settles(t, r)
        \/ \E o \in ServiceOutcomes : generateContentSettles(t, o)

\* The program: only the events the rendered page offers.
Next ==
    \/ FileInputEnabled /\ \E f \in Files : handleImageChange(f)
    \/ UploadZoneShown /\ \E f \in Files : handleDrop(f)
    \/ RemoveImageShown /\ handleReset
    \/ (GenerateShown \/ ResultShown) /\ handleGeneratePrompt
    \/ ResultShown /\ handleCopyPrompt
    \/ copyTimeout
    \/ Settle

Spec == Init /\ [][Next]_vars

\* The handlers as operations: each may be requested in any state.
NextHandlers ==
    \/ \E f \in Files : handleImageChange(f)
    \/ \E f \in Files : handleDrop(f)
    \/ handleReset
    \/ handleGeneratePrompt
    \/ handleCopyPrompt
    \/ copyTimeout
    \/ Settle

SpecHandlers == Init /\ [][NextHandlers]_vars

\* The event loop runs every callback scheduled with setTimeout.
SpecHandlersFair == SpecHandlers /\ WF_vars(copyTimeout)

\* The values the state takes.
TypeOK ==
    /\ imageFile \in ImageFiles \cup {NoFile}
    /\ generatedPrompt \in Texts
    /\ status \in AppStatus
    /\ copySuccess \in BOOLEAN
    /\ BagCardinality(tasks) <= MaxTasks
    /\ \A t \in BagToSet(tasks) : t.file \in ImageFiles
    /\ clipboard \in Texts
    /\ timers \in 0..MaxTimers
    /\ urlLeaked \in BOOLEAN

----------------------------------------------------------------------------
(* Invariants of the session state, checked under Spec. *)

\* C1: generatedPrompt and error are never both non-empty.
C1_NeverBothNonEmpty == ~(generatedPrompt # <<>> /\ error # "")

\* C2: generatedPrompt is non-empty only if status is success.
C2_TextOnlyInSuccess == generatedPrompt # <<>> => status = "success"

\* C3: error is non-empty only if status is error.
C3_ErrorOnlyInError == error # "" => status = "error"

\* C4: in previewing, generating and success an image is stored, and in idle
\* none is.
C4_ImagePresence ==
    /\ status \in {"previewing", "generating", "success"} => imageFile # NoFile
    /\ status = "idle" => imageFile = NoFile

\* C5: when status is idle (after a reset during a pending generation), the
\* arrival of a pending invocation's settlement leaves imageFile,
\* generatedPrompt, error and status unchanged.
C5_StaleResponseDiscarded ==
    [][(status = "idle" /\ lastEvent'.op \in {"fileToBase64", "generateContent"})
          => UNCHANGED appState]_vars

\* C6: with only the events the page offers, at most one generate request is
\* pending at any time.
C6_AtMostOnePending == BagCardinality(tasks) <= 1

----------------------------------------------------------------------------
(* Contracts of the handlers, checked under SpecHandlers: every behaviour   *)
(* of Spec is one of SpecHandlers, which also requests each handler in the  *)
(* states where the page does not offer it.                                 *)

\* The declared media type t begins with "image/".
DeclaredImage(t) ==
    /\ Len(t) >= 6
    /\ <<t[1], t[2], t[3], t[4], t[5], t[6]>> = <<"i", "m", "a", "g", "e", "/">>

\* C7: after a file whose media type does not start with "image/" is
\* submitted, status is error, error is the invalid-image message and no
\* image is stored.
C7_InvalidUpload ==
    (lastEvent.op = "processFile" /\ ~DeclaredImage(lastEvent.file.type))
        => /\ status = "error"
           /\ error = "Please select a valid image file."
           /\ imageFile = NoFile

\* An invalid file was submitted while an image was stored and a generation
\* was pending.
C7_Witness ==
    /\ lastEvent.op = "processFile"
    /\ lastEvent.file.type = ImageNoSlash
    /\ status = "error"
    /\ imageFile = NoFile
    /\ urlLeaked
    /\ tasks # EmptyBag

\* C8: after a file whose media type starts with "image/" is submitted,
\* status is previewing, that file is the stored image, and generatedPrompt
\* and error are empty.
C8_ValidUpload ==
    (lastEvent.op = "processFile" /\ DeclaredImage(lastEvent.file.type))
        => /\ status = "previewing"
           /\ imageFile = lastEvent.file
           /\ generatedPrompt = <<>>
           /\ error = ""

\* A valid file was submitted and is stored, an earlier image having been
\* replaced.
C8_Witness ==
    /\ lastEvent.op = "processFile"
    /\ DeclaredImage(lastEvent.file.type)
    /\ imageFile = lastEvent.file
    /\ status = "previewing"
    /\ urlLeaked

\* C9: a generate request made while no image is stored ends in status error
\* with the no-image message, and neither creates nor advances a pending
\* invocation, so the service is not called.
C9_NoImageNoCall ==
    [][(lastEvent'.op = "handleGeneratePrompt" /\ imageFile = NoFile)
          => /\ status' = "error"
             /\ error' = "Please select an image first."
             /\ tasks' = tasks]_vars

\* Generation was requested with no image stored, while a result was shown.
C9_Witness ==
    /\ lastEvent.op = "handleGeneratePrompt"
    /\ ~lastEvent.hadImage
    /\ status = "error"
    /\ error = "Please select an image first."
    /\ generatedPrompt # <<>>

\* The generate request whose invocation ended in the last step, if one did,
\* and the number of service calls it made.
RequestEnded ==
    \/ lastEvent.op = "generateContent"
    \/ lastEvent.op = "fileToBase64" /\ ~lastEvent.ok
EndedCalls ==
    IF lastEvent.op = "generateContent" THEN lastEvent.task.calls ELSE lastEvent.calls

\* C10: every generate request made while an image is stored calls the
\* service exactly once, whatever the outcome of the base64 encoding.
C10_ExactlyOnce == RequestEnded => EndedCalls = 1

\* C10, amended: a generate request calls the service at most once: not
\* while the encoding is pending, once when the encoding has succeeded, and
\* not at all when the encoding fails, the request then ending in error.
C10_OnceIffEncoded ==
    /\ \A t \in BagToSet(tasks) : t.calls = (IF t.pc = "fileToBase64" THEN 0 ELSE 1)
    /\ lastEvent.op = "generateContent" => lastEvent.task.calls = 1
    /\ lastEvent.op = "fileToBase64"
         => /\ lastEvent.calls = (IF lastEvent.ok THEN 1 ELSE 0)
            /\ ~lastEvent.ok => status = "error"

\* The encoding failed and the request ended without a service call.
C10_Witness ==
    /\ lastEvent.op = "fileToBase64"
    /\ ~lastEvent.ok
    /\ lastEvent.calls = 0
    /\ status = "error"

----------------------------------------------------------------------------
(* The settlement of a generate request. *)

\* The service answered the last step's request with non-empty text.
AnsweredWithText ==
    /\ lastEvent.op = "generateContent"
    /\ lastEvent.outcome.kind = "response"
    /\ lastEvent.outcome.hasText
    /\ lastEvent.outcome.text # <<>>

\* The service answered the last step's request with no text or empty text.
AnsweredEmpty ==
    /\ lastEvent.op = "generateContent"
    /\ lastEvent.outcome.kind = "response"
    /\ ~lastEvent.outcome.hasText \/ lastEvent.outcome.text = <<>>

\* C11: right after a pending generation resolves with response text t,
\* status is success, generatedPrompt is t without its leading and trailing
\* whitespace, and error is empty.
C11_SuccessState ==
    AnsweredWithText
        => /\ status = "success"
           /\ generatedPrompt = trim(lastEvent.outcome.text)
           /\ error = ""

\* C12: when the service call of a request fails with an Error of message
\* m, the step ends in status error, with error "Failed to generate prompt:
\* Gemini API Error: " followed by m and generatedPrompt empty, and the
\* request is finished: no further call is pending for it.
C12_FailureState ==
    [][(lastEvent'.op = "generateContent" /\ lastEvent'.outcome.kind = "throwError")
          => /\ status' = "error"
             /\ error' = "Failed to generate prompt: Gemini API Error: "
                            \o lastEvent'.outcome.message
             /\ generatedPrompt' = <<>>
             /\ tasks' = tasks (-) SetToBag({lastEvent'.task})]_vars

\* C13: for a response with missing or empty text the client fails with the
\* empty-response message itself, not with a message wrapped the way the
\* messages of service errors are.
C13_EmptyResponseDistinct ==
    AnsweredEmpty
        => LET r == generatePromptFromImage(lastEvent.outcome)
           IN  /\ ~r.ok
               /\ r.message = "The API response was empty or invalid."
               /\ \A m \in ServiceMessages \cup {EmptyResponseMsg} :
                      r.message # "Gemini API Error: " \o m

\* C14: right after a reset, status is idle, no image is stored, and
\* generatedPrompt and error are empty.
C14_ResetState ==
    lastEvent.op = "handleReset"
        => /\ status = "idle"
           /\ imageFile = NoFile
           /\ generatedPrompt = <<>>
           /\ error = ""

\* A reset was requested while a generation was pending, an object URL
\* having leaked before.
C14_Witness ==
    /\ lastEvent.op = "handleReset"
    /\ status = "idle"
    /\ urlLeaked
    /\ tasks # EmptyBag

----------------------------------------------------------------------------
(* Copying the prompt, checked under SpecHandlers. *)

\* A copy request leaves everything alone when generatedPrompt is empty;
\* otherwise it writes generatedPrompt to the clipboard and raises the
\* feedback, leaving imageFile, generatedPrompt, error and status alone.
CopyStep ==
    lastEvent'.op = "handleCopyPrompt"
        => IF generatedPrompt = <<>>
           THEN UNCHANGED <<imageFile, generatedPrompt, error, status, copySuccess,
                            tasks, clipboard, timers, urlLeaked>>
           ELSE /\ clipboard' = generatedPrompt
                /\ copySuccess' = TRUE
                /\ UNCHANGED appState

\* Every firing of a copy timer clears the feedback.
TimeoutStep == lastEvent'.op = "copyTimeout" => ~copySuccess'

\* C15: copy is a no-op when generatedPrompt is empty; otherwise it writes
\* exactly generatedPrompt to the clipboard and sets copySuccess, leaving
\* the rest of the session state unchanged; every timer that fires clears
\* copySuccess, so it is false once the timer of the last copy has fired.
C15_Copy ==
    /\ [][CopyStep /\ TimeoutStep]_vars
    /\ [](timers = 0 => ~copySuccess)

\* With the timers firing, raised feedback is eventually cleared (checked
\* under SpecHandlersFair).
CopyFeedbackClears == copySuccess ~> ~copySuccess

\* The shown prompt was copied, and the last pending timer has fired.
C15_Witness ==
    /\ lastEvent.op = "copyTimeout"
    /\ timers = 0
    /\ ~copySuccess
    /\ clipboard # <<>>
    /\ clipboard = generatedPrompt

----------------------------------------------------------------------------
(* Stale results, the client's results, object URLs and the page's         *)
(* controls, checked under Spec.                                            *)

\* C16: a result that arrives while an image is stored, and becomes the
\* shown result, comes from a request issued for that image.
C16_ResultForStoredImage ==
    (lastEvent.op = "generateContent" /\ status = "success" /\ imageFile # NoFile)
        => lastEvent.task.file = imageFile

\* C17: whenever the client resolves, its text is non-empty and has no
\* leading or trailing whitespace, whatever text the service answered with.
C17_ResolvedTextNonEmpty ==
    lastEvent.op = "generateContent"
        => LET r == generatePromptFromImage(lastEvent.outcome)
           IN  r.ok => /\ r.value # <<>>
                       /\ r.value[1] # " "
                       /\ r.value[Len(r.value)] # " "

C19_NoGenerateWhileGenerating ==
    [][lastEvent'.op = "handleGeneratePrompt"
          => status \in {"previewing", "success"}]_vars

\* A request was made and is pending, status being generating.
C19_Witness ==
    /\ lastEvent.op = "handleGeneratePrompt"
    /\ lastEvent.hadImage
    /\ status = "generating"
    /\ tasks # EmptyBag

\* C20: in every state either an image is stored and Remove Image can be
\* used, or none is stored and an image file can be dropped on the upload
\* zone, which leads to status previewing.
C20_NoDeadEnd ==
    IF imageFile # NoFile
    THEN ENABLED (RemoveImageShown /\ handleReset)
    ELSE ENABLED (UploadZoneShown /\ \E f \in ImageFiles : handleDrop(f) /\ status' = "previewing")

\* No image is stored, status is error and a result is still pending: the
\* upload zone is the way on.
C20_Witness ==
    /\ imageFile = NoFile
    /\ status = "error"
    /\ tasks # EmptyBag
    /\ ENABLED (UploadZoneShown /\ \E f \in ImageFiles : handleDrop(f))

====
